---------------------------- MODULE Spec2Model ----------------------------
(***************************************************************************)
(* Model of bot.py: the loyalty ledger (class LoyaltyDB over SQLite), the  *)
(* purchase-notification webhook (evotor_webhook, served by uvicorn in its *)
(* own thread) and the Telegram dialogue (four ConversationHandlers and    *)
(* the generic button handler registered by main, served by the polling    *)
(* thread).                                                                *)
(*                                                                         *)
(* Numbers.  Amounts are whole roubles (integers).  For whole roubles the  *)
(* float expressions of the source are exact: int(amount * 0.05) is        *)
(* amount * 5 / 100 truncated toward zero and                              *)
(* int(amount * 50 / 100 / 0.01) is amount * 50.  A discount percentage is *)
(* kept in hundredths of a percent (points * 0.01 percent = points         *)
(* hundredths).                                                            *)
(***************************************************************************)
EXTENDS Integers, Sequences, FiniteSets, TLC

VARIABLES
    users,          \* table users: sequence of rows, user_id = index
    transactions,   \* table transactions: sequence of rows, transaction_id = index
    conv,           \* per identity, the state of each ConversationHandler
    user_data,      \* per identity, context.user_data (a dict)
    bot,            \* the polling thread: the handler in progress and its locals
    reply,          \* what the last callback reported to its identity
    wh              \* the webhook thread: the request in progress, its locals
                    \* and the response it is about to return

vars == <<users, transactions, conv, user_data, bot, reply, wh>>

-----------------------------------------------------------------------------
(* Configuration: LOYALTY_SETTINGS, ADMINS, conversation states.           *)

\* 'points_per_purchase': 0.05, as a percentage of the amount
points_per_purchase == 5
\* 'discount_per_point': 0.01 percent per point, in hundredths of a percent
discount_per_point == 1
\* 'max_discount': 50 percent
max_discount == 50
\* 'welcome_bonus': 100
welcome_bonus == 100

YOUR_TELEGRAM_ID == 945157249
ADMINS == {YOUR_TELEGRAM_ID}

\* The identities that talk to the bot: a customer and the administrator.
Customers == {501}
Identities == Customers \cup ADMINS

END == "END"
PHONE == "PHONE"
NAME == "NAME"
GENDER == "GENDER"
ADD_PURCHASE == "ADD_PURCHASE"
SPEND_POINTS == "SPEND_POINTS"
CHECK_BALANCE == "CHECK_BALANCE"
ADMIN_MENU == "ADMIN_MENU"
ADMIN_ADD_USER == "ADMIN_ADD_USER"
ADMIN_EDIT_USER == "ADMIN_EDIT_USER"

\* The longest transaction log the model explores.
MaxTx == 3

-----------------------------------------------------------------------------
(* Python values.                                                          *)

\* None where a row or a dict value is expected; NULL / Some(x) for a nullable
\* number (a column that is NULL, an argument that defaults to None).
None == [none |-> TRUE]
NULL == <<>>
Some(x) == <<x>>

\* int(x / d) for integers: Python's int() truncates toward zero.
IntTrunc(n, d) == IF n >= 0 THEN n \div d ELSE -((-n) \div d)

Min(a, b) == IF a <= b THEN a ELSE b
Max(a, b) == IF a >= b THEN a ELSE b

\* dict.get(key) and dict[key] = value on a dict kept as a function.
DictGet(d, k) == IF k \in DOMAIN d THEN d[k] ELSE None
DictSet(d, k, v) == [x \in DOMAIN d \cup {k} |-> IF x = k THEN v ELSE d[x]]
EmptyDict == [x \in {} |-> None]

\* The decimal numerals that occur in the texts of the model: float(text) and
\* int(text) succeed on these and raise ValueError on every other text.
Numerals ==
    [t \in {"0", "1", "9", "30", "100", "6000", "-150"} |->
        CASE t = "0" -> 0
          [] t = "1" -> 1
          [] t = "9" -> 9
          [] t = "30" -> 30
          [] t = "100" -> 100
          [] t = "6000" -> 6000
          [] t = "-150" -> -150]

IsNumeral(t) == t \in DOMAIN Numerals

\* str.split(): the words of a text.
Split(t) ==
    CASE t = "1 6000" -> <<"1", "6000">>
      [] t = "1 -150" -> <<"1", "-150">>
      [] t = "9 100" -> <<"9", "100">>
      [] t = "+ Add purchase" -> <<"+", "Add", "purchase">>
      [] t = "Use points" -> <<"Use", "points">>
      [] t = "+ Add points" -> <<"+", "Add", "points">>
      [] t = "Edit user" -> <<"Edit", "user">>
      [] t = "Main menu" -> <<"Main", "menu">>
      [] OTHER -> <<t>>

-----------------------------------------------------------------------------
(* LoyaltyDB.                                                              *)

\* str(user_id).zfill(3) and hashlib.md5(str(user_id)).hexdigest()[:3]
Zfill3 == [i \in 1..6 |-> CASE i = 1 -> "001" [] i = 2 -> "002" [] i = 3 -> "003"
                            [] i = 4 -> "004" [] i = 5 -> "005" [] i = 6 -> "006"]
Md5Hex3 == [i \in 1..6 |-> CASE i = 1 -> "c4c" [] i = 2 -> "c81" [] i = 3 -> "ecc"
                             [] i = 4 -> "a87" [] i = 5 -> "e4d" [] i = 6 -> "167"]

\* A code made from the parity of user_id.
generate_qr_code_of_parity(user_id) ==
    Zfill3[((user_id - 1) % 2) + 1] \o "-" \o Md5Hex3[((user_id - 1) % 2) + 1]

generate_qr_code(user_id) == Zfill3[user_id] \o "-" \o Md5Hex3[user_id]

\* SELECT ... FROM users WHERE telegram_id = ? (AND is_active = 1)
UserIdsByTelegram(us, telegram_id) ==
    {i \in 1..Len(us) : us[i].telegram_id = telegram_id /\ us[i].is_active}

\* SELECT ... FROM users WHERE qr_code = ? AND is_active = 1
UserIdsByQr(us, qr_code) ==
    {i \in 1..Len(us) : us[i].qr_code = qr_code /\ us[i].is_active}

\* get_user_info: the row of the identity (with its user_id), or None
get_user_info(us, telegram_id) ==
    IF UserIdsByTelegram(us, telegram_id) = {} THEN None
    ELSE LET i == CHOOSE i \in UserIdsByTelegram(us, telegram_id) : TRUE
         IN  [user_id |-> i, current_points |-> us[i].current_points,
              total_points |-> us[i].total_points,
              total_purchases |-> us[i].total_purchases,
              name |-> us[i].name, phone |-> us[i].phone,
              gender |-> us[i].gender, qr_code |-> us[i].qr_code]

\* get_user_by_id: SELECT * FROM users WHERE user_id = ?
get_user_by_id(us, user_id) ==
    IF user_id \in 1..Len(us) THEN us[user_id] ELSE None

\* get_user_by_qr without its WHERE clause: the first account.
get_user_by_qr_first(us, qr_code) ==
    IF Len(us) = 0 THEN None
    ELSE [telegram_id |-> us[1].telegram_id,
          current_points |-> us[1].current_points, user_id |-> 1]

\* get_user_by_qr: (telegram_id, current_points, user_id) or None
get_user_by_qr(us, qr_code) ==
    IF UserIdsByQr(us, qr_code) = {} THEN None
    ELSE LET i == CHOOSE i \in UserIdsByQr(us, qr_code) : TRUE
         IN  [telegram_id |-> us[i].telegram_id,
              current_points |-> us[i].current_points, user_id |-> i]

\* A row of table transactions.  description is the formatted text, kept as
\* its fixed part followed by the numbers formatted into it.
TxRow(user_id, type, amount, points_change, description) ==
    [user_id |-> user_id, type |-> type, amount |-> amount,
     points_change |-> points_change, description |-> description]

\* The points of a purchase rounded to the nearest point.
PointsEarned_rounded(amount) == IntTrunc(amount * points_per_purchase + 50, 100)

\* earned = int(amount * LOYALTY_SETTINGS['points_per_purchase'])
PointsEarned(amount) == IntTrunc(amount * points_per_purchase, 100)

\* add_user that credits the welcome bonus without logging it.
add_user_without_bonus_row(us, txs, telegram_id, name, phone, gender) ==
    LET existing == {i \in 1..Len(us) : us[i].telegram_id = telegram_id}
    IN  IF existing # {}
        THEN LET i == CHOOSE i \in existing : TRUE
             IN  [users |-> us, transactions |-> txs,
                  ret |-> <<i, us[i].qr_code>>]
        ELSE LET user_id == Len(us) + 1
                 qr_code == generate_qr_code(user_id)
                 row == [telegram_id |-> telegram_id, name |-> name,
                         phone |-> phone, gender |-> gender,
                         total_purchases |-> 0, total_points |-> 0,
                         current_points |-> welcome_bonus,
                         qr_code |-> qr_code, is_active |-> TRUE]
             IN  [users |-> Append(us, row),
                  transactions |->
                      Append(txs, TxRow(user_id, "bonus", NULL, 0,
                                        <<"registration bonus">>)),
                  ret |-> <<user_id, qr_code>>]

\* add_user without its SELECT for an existing account: every call inserts.
add_user_always_inserts(us, txs, telegram_id, name, phone, gender) ==
    LET user_id == Len(us) + 1
        qr_code == generate_qr_code(user_id)
        row == [telegram_id |-> telegram_id, name |-> name,
                phone |-> phone, gender |-> gender,
                total_purchases |-> 0, total_points |-> 0,
                current_points |-> welcome_bonus,
                qr_code |-> qr_code, is_active |-> TRUE]
    IN  [users |-> Append(us, row),
         transactions |->
             Append(txs, TxRow(user_id, "bonus", NULL, welcome_bonus,
                               <<"registration bonus">>)),
         ret |-> <<user_id, qr_code>>]

\* add_user that logs the welcome bonus without crediting it.
add_user_bonus_not_credited(us, txs, telegram_id, name, phone, gender) ==
    LET existing == {i \in 1..Len(us) : us[i].telegram_id = telegram_id}
    IN  IF existing # {}
        THEN LET i == CHOOSE i \in existing : TRUE
             IN  [users |-> us, transactions |-> txs,
                  ret |-> <<i, us[i].qr_code>>]
        ELSE LET user_id == Len(us) + 1
                 qr_code == generate_qr_code(user_id)
                 row == [telegram_id |-> telegram_id, name |-> name,
                         phone |-> phone, gender |-> gender,
                         total_purchases |-> 0, total_points |-> 0,
                         current_points |-> 0,
                         qr_code |-> qr_code, is_active |-> TRUE]
             IN  [users |-> Append(us, row),
                  transactions |->
                      Append(txs, TxRow(user_id, "bonus", NULL, welcome_bonus,
                                        <<"registration bonus">>)),
                  ret |-> <<user_id, qr_code>>]

\* add_user: the existing account of telegram_id, or a new row with the welcome
\* bonus as current_points, its qr_code, and one 'bonus' transaction.
add_user(us, txs, telegram_id, name, phone, gender) ==
    LET existing == {i \in 1..Len(us) : us[i].telegram_id = telegram_id}
    IN  IF existing # {}
        THEN LET i == CHOOSE i \in existing : TRUE
             IN  [users |-> us, transactions |-> txs,
                  ret |-> <<i, us[i].qr_code>>]
        ELSE LET user_id == Len(us) + 1
                 qr_code == generate_qr_code(user_id)
                 row == [telegram_id |-> telegram_id, name |-> name,
                         phone |-> phone, gender |-> gender,
                         total_purchases |-> 0, total_points |-> 0,
                         current_points |-> welcome_bonus,
                         qr_code |-> qr_code, is_active |-> TRUE]
             IN  [users |-> Append(us, row),
                  transactions |->
                      Append(txs, TxRow(user_id, "bonus", NULL, welcome_bonus,
                                        <<"registration bonus">>)),
                  ret |-> <<user_id, qr_code>>]

\* UPDATE users SET total_purchases = total_purchases + ?, total_points =
\* total_points + ?, current_points = current_points + ? WHERE <the rows in ids>
UpdatePurchase(us, ids, amount, earned) ==
    [i \in 1..Len(us) |->
        IF i \in ids
        THEN [us[i] EXCEPT !.total_purchases = @ + amount,
                           !.total_points = @ + earned,
                           !.current_points = @ + earned]
        ELSE us[i]]

\* add_purchase_by_qr writing the balance it read earlier plus the points,
\* instead of incrementing the stored balance.
add_purchase_by_qr_write_absolute(us, txs, row, qr_code, amount) ==
    LET earned == PointsEarned(amount)
    IN  [users |-> [i \in 1..Len(us) |->
                       IF us[i].qr_code = qr_code
                       THEN [us[i] EXCEPT !.total_purchases = @ + amount,
                                          !.total_points = @ + earned,
                                          !.current_points = row.current_points + earned]
                       ELSE us[i]],
         transactions |->
             Append(txs, TxRow(row.user_id, "purchase", Some(amount), earned,
                               <<"purchase via Evotor", amount>>)),
         earned |-> earned]

\* add_purchase_by_qr with an UPDATE that has no WHERE clause.
add_purchase_by_qr_write_everyone(us, txs, row, qr_code, amount) ==
    LET earned == PointsEarned(amount)
    IN  [users |-> UpdatePurchase(us, 1..Len(us), amount, earned),
         transactions |->
             Append(txs, TxRow(row.user_id, "purchase", Some(amount), earned,
                               <<"purchase via Evotor", amount>>)),
         earned |-> earned]

\* add_purchase_by_qr, its write transaction (after get_user_by_qr found row):
\* the UPDATE by qr_code, the 'purchase' row and the commit.
add_purchase_by_qr_write(us, txs, row, qr_code, amount) ==
    LET earned == PointsEarned(amount)
    IN  [users |-> UpdatePurchase(us, {i \in 1..Len(us) : us[i].qr_code = qr_code},
                                  amount, earned),
         transactions |->
             Append(txs, TxRow(row.user_id, "purchase", Some(amount), earned,
                               <<"purchase via Evotor", amount>>)),
         earned |-> earned]

\* add_purchase, its write transaction: the UPDATE by user_id, the 'purchase'
\* row and the commit.
add_purchase_write(us, txs, user_id, amount) ==
    LET points_earned == PointsEarned(amount)
    IN  [users |-> UpdatePurchase(us, {user_id} \cap (1..Len(us)), amount,
                                  points_earned),
         transactions |->
             Append(txs, TxRow(user_id, "purchase", Some(amount), points_earned,
                               <<"purchase", amount>>)),
         earned |-> points_earned]

\* Python truth value of the purchase_amount argument of spend_points.
Truthy(purchase_amount) == purchase_amount # NULL /\ purchase_amount[1] # 0

\* max_points_for_discount = int(purchase_amount * max_discount / 100 /
\* discount_per_point), 0 without a purchase amount
MaxPointsForDiscount(purchase_amount) ==
    IF Truthy(purchase_amount)
    THEN IntTrunc(purchase_amount[1] * max_discount, discount_per_point)
    ELSE 0

\* spend_points without the clamp.
ClampPoints_absent(points_to_spend, purchase_amount) == points_to_spend

\* points_to_spend after "if purchase_amount and points_to_spend >
\* max_points_for_discount: points_to_spend = max_points_for_discount"
ClampPoints(points_to_spend, purchase_amount) ==
    IF Truthy(purchase_amount)
       /\ points_to_spend > MaxPointsForDiscount(purchase_amount)
    THEN MaxPointsForDiscount(purchase_amount)
    ELSE points_to_spend

\* spend_points without "discount = min(discount, max_discount)".
Discount_uncapped(points_to_spend, purchase_amount) ==
    points_to_spend * discount_per_point

\* discount = points_to_spend * discount_per_point, and with a purchase
\* amount min(discount, max_discount); in hundredths of a percent
Discount(points_to_spend, purchase_amount) ==
    IF Truthy(purchase_amount)
    THEN Min(points_to_spend * discount_per_point, max_discount * 100)
    ELSE points_to_spend * discount_per_point

\* spend_points checking the balance against the clamped points.
SpendRefused_after_clamp(current_points, points_to_spend, purchase_amount) ==
    current_points < ClampPoints(points_to_spend, purchase_amount)

\* spend_points, the check "if current_points < points_to_spend" on the
\* balance its SELECT returned; it comes before the clamp and does not look at
\* purchase_amount
SpendRefused(current_points, points_to_spend, purchase_amount) ==
    current_points < points_to_spend

\* spend_points that takes the points without a 'spend' row.
spend_points_write_unlogged(us, txs, user_id, points_to_spend, purchase_amount) ==
    LET spent == ClampPoints(points_to_spend, purchase_amount)
    IN  [users |-> [us EXCEPT ![user_id].current_points = @ - spent],
         transactions |-> txs,
         discount |-> Discount(spent, purchase_amount)]

\* spend_points, its write transaction: UPDATE users SET current_points =
\* current_points - ?, the 'spend' row and the commit.
spend_points_write(us, txs, user_id, points_to_spend, purchase_amount) ==
    LET spent == ClampPoints(points_to_spend, purchase_amount)
    IN  [users |-> [us EXCEPT ![user_id].current_points = @ - spent],
         transactions |->
             Append(txs, TxRow(user_id, "spend", NULL, -spent,
                               <<"spend", spent, Discount(spent, purchase_amount)>>)),
         discount |-> Discount(spent, purchase_amount)]

\* update_user_points that rewrites the account's latest row when that row is
\* an 'admin' row, instead of inserting a new one.
update_user_points_merged(us, txs, user_id, points) ==
    [users |-> [i \in 1..Len(us) |->
                   IF i = user_id
                   THEN [us[i] EXCEPT !.current_points = @ + points,
                                      !.total_points = @ + Max(0, points)]
                   ELSE us[i]],
     transactions |->
         IF /\ Len(txs) > 0
            /\ txs[Len(txs)].user_id = user_id
            /\ txs[Len(txs)].type = "admin"
         THEN [txs EXCEPT ![Len(txs)].points_change = @ + points]
         ELSE Append(txs, TxRow(user_id, "admin", NULL, points,
                                <<"admin adjustment", points>>))]

\* update_user_points that adds the signed points to total_points too.
update_user_points_signed_total(us, txs, user_id, points) ==
    [users |-> [i \in 1..Len(us) |->
                   IF i = user_id
                   THEN [us[i] EXCEPT !.current_points = @ + points,
                                      !.total_points = @ + points]
                   ELSE us[i]],
     transactions |->
         Append(txs, TxRow(user_id, "admin", NULL, points,
                           <<"admin adjustment", points>>))]

\* update_user_points: the UPDATE by user_id, the 'admin' row and the commit.
update_user_points(us, txs, user_id, points) ==
    [users |-> [i \in 1..Len(us) |->
                   IF i = user_id
                   THEN [us[i] EXCEPT !.current_points = @ + points,
                                      !.total_points = @ + Max(0, points)]
                   ELSE us[i]],
     transactions |->
         Append(txs, TxRow(user_id, "admin", NULL, points,
                           <<"admin adjustment", points>>))]

-----------------------------------------------------------------------------
(* JSON values of a webhook payload.                                       *)

JNull == [t |-> "null"]
JNum(n) == [t |-> "num", n |-> n]
JStr(str) == [t |-> "str", s |-> str]
JObj(f) == [t |-> "obj", f |-> f]
\* A body on which request.json() and json.loads both raise.
JInvalid == [t |-> "invalid"]

IsObj(j) == j.t = "obj"
\* dict.get(key): None for a missing key
JGet(j, k) == IF k \in DOMAIN j.f THEN j.f[k] ELSE JNull
\* Python truth value
JTruthy(j) ==
    CASE j.t = "null" -> FALSE
      [] j.t = "num" -> j.n # 0
      [] j.t = "str" -> j.s # ""
      [] j.t = "obj" -> DOMAIN j.f # {}
\* a or b
JOr(a, b) == IF JTruthy(a) THEN a ELSE b

\* float(total): a number, a numeral string, or an exception
FloatOk(j) == j.t = "num" \/ (j.t = "str" /\ IsNumeral(j.s))
FloatOf(j) == IF j.t = "num" THEN j.n ELSE Numerals[j.s]

\* The payloads purchase terminals send in the model: a receipt in a document
\* envelope, a flat receipt with a negative sum (a refund), a receipt envelope
\* with the amount as a string, a receipt without a customer code, one with an
\* unparsable total, one with an unknown code, a payload that is no object,
\* totals "0" and 0, a code that is an object, an event that is no receipt,
\* and a body that is not JSON.
Payloads == <<
    JObj([document |->
            JObj([total |-> JNum(30),
                  extra |-> JObj([clientCode |-> JStr("001-c4c")])])]),
    JObj([sum |-> JNum(-3000), clientCode |-> JStr("001-c4c")]),
    JObj([receipt |->
            JObj([amount |-> JStr("30"),
                  additional |-> JObj([qrCode |-> JStr("001-c4c")])])]),
    JObj([total |-> JNum(100)]),
    JObj([document |->
            JObj([total |-> JStr("abc"),
                  extra |-> JObj([clientCode |-> JStr("001-c4c")])])]),
    JObj([total |-> JNum(100), clientCode |-> JStr("999-zzz")]),
    JStr("ping"),
    JObj([total |-> JStr("0"), clientCode |-> JStr("001-c4c")]),
    JObj([total |-> JNum(0), clientCode |-> JStr("001-c4c")]),
    JObj([total |-> JNum(30), clientCode |-> JObj([id |-> JNum(1)])]),
    JObj([type |-> JStr("OPEN_SESSION")]),
    JInvalid
>>

\* The payloads that carry the amount 30 and the code of account 1, each in
\* one of the places evotor_webhook looks at: the amount in a document
\* envelope, a receipt envelope or the payload itself, under total, sum or
\* amount; the code under clientCode or qrCode, in an extra or additional
\* object next to the amount, or at the top of the payload.
AmountLocations == {"document", "receipt", "flat"}
AmountNames == {"total", "sum", "amount"}
CodeLocations == {"extra", "additional", "top"}
CodeNames == {"clientCode", "qrCode"}

Combo(al, an, cl, cn) ==
    LET code == JStr("001-c4c")
        inner == IF cl = "top" THEN an :> JNum(30)
                 ELSE (an :> JNum(30)) @@ (cl :> JObj(cn :> code))
        top == IF cl = "top" THEN cn :> code ELSE EmptyDict
    IN  IF al = "flat" THEN JObj(inner @@ top)
        ELSE JObj((al :> JObj(inner)) @@ top)

ComboPayloads ==
    {Combo(al, an, cl, cn) : al \in AmountLocations, an \in AmountNames,
                             cl \in CodeLocations, cn \in CodeNames}

AllPayloads == {Payloads[k] : k \in 1..Len(Payloads)} \cup ComboPayloads

\* evotor_webhook, lines 484-514: what the handler extracts from the payload.
\* outcome "raise" stands for an exception caught by the outer except.
WebhookParse(data) ==
    IF ~IsObj(data) THEN [outcome |-> "raise"]
    ELSE
    LET receipt == JOr(JOr(JGet(data, "document"), JGet(data, "receipt")), data)
    IN  IF ~IsObj(receipt) THEN [outcome |-> "raise"]
        ELSE
        LET total == JOr(JOr(JGet(receipt, "total"), JGet(receipt, "sum")),
                         JGet(receipt, "amount"))
            extra == JOr(JOr(JGet(receipt, "extra"), JGet(receipt, "additional")),
                         JObj(EmptyDict))
        IN  IF ~IsObj(extra) THEN [outcome |-> "raise"]
            ELSE
            LET qr1 == JOr(JOr(JGet(extra, "clientCode"), JGet(extra, "qrCode")),
                           JGet(data, "clientCode"))
                qr_code == IF ~JTruthy(qr1)
                           THEN JOr(JGet(receipt, "clientCode"),
                                    JGet(data, "clientCode"))
                           ELSE qr1
            IN  IF ~JTruthy(qr_code) \/ ~JTruthy(total)
                THEN [outcome |-> "ignored"]
                ELSE IF ~FloatOk(total)
                THEN [outcome |-> "invalid_total"]
                ELSE [outcome |-> "purchase", qr_code |-> qr_code,
                      total_float |-> FloatOf(total)]

\* The SQL parameter qr_code matches a stored code only when it is that string.
QrText(j) == IF j.t = "str" THEN j.s ELSE ""

-----------------------------------------------------------------------------
(* The initial state: empty tables, no conversation, both threads idle.    *)

ConvIdle == [user |-> END, purchase |-> END, points |-> END, admin |-> END]
BotIdle == [pc |-> "idle"]
WhIdle == [pc |-> "idle"]
\* The handler has built its response and returns it.
WhReturn(resp) == [pc |-> "return", resp |-> resp]
\* A reply that carries no ledger data (a prompt, a menu, an error text): the
\* model keeps the replies that report a result and none of the others.
NoReply == [msg |-> "none"]

Init ==
    /\ users = <<>>
    /\ transactions = <<>>
    /\ conv = [i \in Identities |-> ConvIdle]
    /\ user_data = [i \in Identities |-> EmptyDict]
    /\ bot = BotIdle
    /\ reply = NoReply
    /\ wh = WhIdle

\* The model stops appending to the transaction log at MaxTx rows.
LogHasRoom == Len(transactions) < MaxTx

-----------------------------------------------------------------------------
(* evotor_webhook, in the uvicorn thread.                                  *)

\* An exception that leaves evotor_webhook.
ExceptionResponse_uncaught == [pc |-> "raised"]

\* evotor_webhook, "except Exception as e": the error response.
ExceptionResponse == WhReturn([status |-> "error", message |-> "exception"])

\* sqlite3 binds a str or a number as the parameter qr_code and raises on a
\* dict.
Bindable(j) == j.t \in {"str", "num"}

\* The request arrives: parse the payload and look the customer up
\* (get_user_by_qr, the first statement of add_purchase_by_qr).
WebhookRequest(data) ==
    /\ wh.pc = "idle"
    /\ LET p == WebhookParse(data)
       IN  CASE p.outcome = "raise" -> wh' = ExceptionResponse
             [] p.outcome = "purchase" /\ ~Bindable(p.qr_code) ->
                  wh' = ExceptionResponse
             [] p.outcome = "ignored" ->
                  wh' = WhReturn([status |-> "ignored",
                                  message |-> "Missing QR code or total"])
             [] p.outcome = "invalid_total" ->
                  wh' = WhReturn([status |-> "error",
                                  message |-> "Invalid total format"])
             [] p.outcome = "purchase" /\ Bindable(p.qr_code) ->
                  LET row == get_user_by_qr(users, QrText(p.qr_code))
                  IN  IF row = None
                      THEN wh' = WhReturn([status |-> "not_found",
                                           message |-> "Client not found"])
                      ELSE /\ LogHasRoom
                           /\ wh' = [pc |-> "update", row |-> row,
                                     qr_code |-> QrText(p.qr_code),
                                     amount |-> p.total_float]
    /\ UNCHANGED <<users, transactions, conv, user_data, bot, reply>>

\* A terminal sends payload k.
WebhookReceive(k) == WebhookRequest(Payloads[k])

\* add_purchase_by_qr: the UPDATE, the INSERT and the commit.
WebhookUpdate ==
    /\ wh.pc = "update"
    /\ LogHasRoom
    /\ LET w == add_purchase_by_qr_write(users, transactions, wh.row, wh.qr_code,
                                         wh.amount)
       IN  /\ users' = w.users
           /\ transactions' = w.transactions
           /\ wh' = [pc |-> "select", row |-> wh.row, earned |-> w.earned]
    /\ UNCHANGED <<conv, user_data, bot, reply>>

\* add_purchase_by_qr: SELECT current_points; evotor_webhook: the response
\* built from its result.
OkResponse ==
    WhReturn([status |-> "ok", points |-> wh.earned,
              balance |-> users[wh.row.user_id].current_points,
              telegram_id |-> wh.row.telegram_id])

\* send_message raising instead of being caught.
AfterNotification_raises(sent, resp) == IF sent THEN resp ELSE ExceptionResponse

\* "try: await application.bot.send_message(...) except Exception as e:
\* logger.error(...)": sent or not, the handler goes on to its response.
AfterNotification(sent, resp) == resp

\* The SELECT, the notification and the response, the notification itself not
\* kept in the state.
WebhookRespond ==
    /\ wh.pc = "select"
    /\ \E sent \in BOOLEAN : wh' = AfterNotification(sent, OkResponse)
    /\ UNCHANGED <<users, transactions, conv, user_data, bot, reply>>

\* The same step with the notification kept in reply: the message to the
\* customer and whether send_message delivered it.
WebhookNotify(sent) ==
    /\ wh.pc = "select"
    /\ wh' = AfterNotification(sent, OkResponse)
    /\ reply' = [to |-> wh.row.telegram_id, msg |-> "purchase_notification",
                 delivered |-> sent, earned |-> wh.earned,
                 balance |-> users[wh.row.user_id].current_points]
    /\ UNCHANGED <<users, transactions, conv, user_data, bot>>

\* The response leaves the handler.
WebhookReturn ==
    /\ wh.pc = "return"
    /\ wh' = WhIdle
    /\ UNCHANGED <<users, transactions, conv, user_data, bot, reply>>

-----------------------------------------------------------------------------
(* Dispatch of an update by Application: the handlers main registers, all  *)
(* in one group, so the first handler that accepts the update handles it.  *)

Commands == {"/start", "/cancel", "/admin"}
Contact == "<contact>"
IsCommand(u) == u \in Commands
\* filters.TEXT & ~filters.COMMAND
IsText(u) == u \notin Commands /\ u # Contact

BtnAddPurchase == "+ Add purchase"
BtnSpend == "Use points"
BtnCancel == "Cancel"
BtnAdminAddPoints == "+ Add points"
BtnAdminEdit == "Edit user"
BtnMainMenu == "Main menu"
BtnMale == "Male"

\* A handler that returns None leaves the conversation state as it is.
ReturnsNone == "None"

\* ConversationHandler.check_update for conversation c of identity i: the
\* callback that accepts update u, or "" when the conversation passes on it.
ConvHandler(c, st, u) ==
    IF st = END
    THEN CASE c = "user" /\ u = "/start" -> "start"
           [] c = "purchase" /\ u = BtnAddPurchase -> "handle_buttons"
           [] c = "points" /\ u = BtnSpend -> "handle_buttons"
           [] c = "admin" /\ u = "/admin" -> "admin_panel"
           [] OTHER -> ""
    ELSE CASE st = PHONE /\ (u = Contact \/ IsText(u)) -> "get_phone"
           [] st = NAME /\ IsText(u) -> "get_name"
           [] st = GENDER /\ IsText(u) -> "get_gender"
           [] st = ADD_PURCHASE /\ IsText(u) -> "add_purchase_handler"
           [] st = SPEND_POINTS /\ IsText(u) -> "spend_points_handler"
           [] st = CHECK_BALANCE /\ IsText(u) -> "calculate_discount_handler"
           [] st = ADMIN_MENU /\ IsText(u) -> "handle_admin_buttons"
           [] st = ADMIN_ADD_USER /\ IsText(u) -> "admin_add_points_handler"
           [] st = ADMIN_EDIT_USER /\ IsText(u) -> "admin_edit_user_handler"
           [] u = "/cancel" -> "cancel_handler"
           [] OTHER -> ""

\* The order of application.add_handler in main.
ConvOrder == <<"user", "purchase", "points", "admin">>

\* The conversation and callback that handle update u of identity i:
\* the first conversation that accepts it, else the generic handle_buttons
\* for a text, else nothing.
Route(cv, i, u) ==
    LET H(n) == ConvHandler(ConvOrder[n], cv[i][ConvOrder[n]], u)
    IN  IF H(1) # "" THEN [conv |-> ConvOrder[1], handler |-> H(1)]
        ELSE IF H(2) # "" THEN [conv |-> ConvOrder[2], handler |-> H(2)]
        ELSE IF H(3) # "" THEN [conv |-> ConvOrder[3], handler |-> H(3)]
        ELSE IF H(4) # "" THEN [conv |-> ConvOrder[4], handler |-> H(4)]
        ELSE IF IsText(u) THEN [conv |-> "none", handler |-> "handle_buttons"]
        ELSE [conv |-> "none", handler |-> ""]

\* ConversationHandler._update_state with the callback's return value.
SetConv(cv, i, c, ret) ==
    IF c = "none" \/ ret = ReturnsNone THEN cv
    ELSE [cv EXCEPT ![i][c] = ret]

Reply(i, m) == [to |-> i, msg |-> m]

\* The updates the chat transport delivers in the model.  A text entered as
\* phone, name or gender is stored in the account, so the model offers one
\* text in each of those states.
CustomerButtons == {BtnAddPurchase, BtnSpend, BtnCancel}
CustomerNumbers == {"0", "-150", "30", "6000"}
CustomerTexts == CustomerButtons \cup CustomerNumbers
AdminButtons == {BtnAdminAddPoints, BtnAdminEdit, BtnMainMenu, BtnCancel}
AdminNumbers == {"1 6000", "1 -150", "9 100", "1"}
AdminTexts == AdminButtons \cup AdminNumbers
\* A number is offered while a conversation of the identity awaits one;
\* elsewhere it reaches a handler that does nothing with it.
Updates(cv, i) ==
    Commands \cup
    (CASE cv[i].user = PHONE -> {Contact}
       [] cv[i].user = NAME -> {"Ann"}
       [] cv[i].user = GENDER -> {BtnMale}
       [] OTHER ->
            IF i \in ADMINS
            THEN AdminButtons \cup
                 (IF cv[i].admin \in {ADMIN_ADD_USER, ADMIN_EDIT_USER}
                  THEN AdminNumbers ELSE {})
            ELSE CustomerButtons \cup
                 (IF cv[i].purchase # END \/ cv[i].points # END
                  THEN CustomerNumbers ELSE {}))

\* The polling thread takes update u of identity i and routes it to callback
\* h of conversation c.
Takes(i, u, c, h) ==
    /\ bot.pc = "idle"
    /\ c # "none" => ConvHandler(c, conv[i][c], u) = h
    /\ Route(conv, i, u) = [conv |-> c, handler |-> h]

Convs == {"user", "purchase", "points", "admin"}

-----------------------------------------------------------------------------
(* Registration.                                                           *)

start(i) ==
    /\ Takes(i, "/start", "user", "start")
    /\ IF i \in ADMINS
       THEN /\ reply' = NoReply
            /\ conv' = SetConv(conv, i, "user", END)
       ELSE IF get_user_info(users, i) # None
       THEN /\ reply' = NoReply
            /\ conv' = SetConv(conv, i, "user", END)
       ELSE /\ reply' = NoReply
            /\ conv' = SetConv(conv, i, "user", PHONE)
    /\ UNCHANGED <<users, transactions, user_data, bot, wh>>

\* update.message.contact.phone_number of the contact an identity shares
ContactPhone == "+79000000000"

\* get_phone returning GENDER instead of NAME
get_phone_returns_gender(i, u) ==
    /\ Takes(i, u, "user", "get_phone")
    /\ user_data' = [user_data EXCEPT ![i] =
                        DictSet(@, "phone", IF u = Contact THEN ContactPhone ELSE u)]
    /\ reply' = NoReply
    /\ conv' = SetConv(conv, i, "user", GENDER)
    /\ UNCHANGED <<users, transactions, bot, wh>>

get_phone(i, u) ==
    /\ Takes(i, u, "user", "get_phone")
    /\ user_data' = [user_data EXCEPT ![i] =
                        DictSet(@, "phone", IF u = Contact THEN ContactPhone ELSE u)]
    /\ reply' = NoReply
    /\ conv' = SetConv(conv, i, "user", NAME)
    /\ UNCHANGED <<users, transactions, bot, wh>>

get_name(i, u) ==
    /\ Takes(i, u, "user", "get_name")
    /\ user_data' = [user_data EXCEPT ![i] = DictSet(@, "name", u)]
    /\ reply' = NoReply
    /\ conv' = SetConv(conv, i, "user", GENDER)
    /\ UNCHANGED <<users, transactions, bot, wh>>

\* "Male" in gender_text / "Female" in gender_text, else the text itself
GenderOf(gender_text) ==
    CASE gender_text = BtnMale -> "male"
      [] OTHER -> gender_text

get_gender(i, u) ==
    /\ Takes(i, u, "user", "get_gender")
    /\ LogHasRoom
    /\ LET r == add_user(users, transactions, i, DictGet(user_data[i], "name"),
                         DictGet(user_data[i], "phone"), GenderOf(u))
       IN  /\ users' = r.users
           /\ transactions' = r.transactions
           /\ reply' = [to |-> i, msg |-> "registered", user_id |-> r.ret[1],
                        qr_code |-> r.ret[2]]
    /\ conv' = SetConv(conv, i, "user", END)
    /\ UNCHANGED <<user_data, bot, wh>>

-----------------------------------------------------------------------------
(* The button handler and the cancel fallback.                             *)

\* handle_buttons without "if not user_info: ... return" under the purchase
\* and the points button.
handle_buttons_unchecked(i, u, c) ==
    /\ Takes(i, u, c, "handle_buttons")
    /\ CASE u \in {BtnAddPurchase, BtnSpend} ->
              /\ reply' = NoReply
              /\ conv' = SetConv(conv, i, c, IF u = BtnAddPurchase
                                             THEN ADD_PURCHASE
                                             ELSE SPEND_POINTS)
         [] u = BtnCancel ->
              /\ reply' = NoReply
              /\ conv' = SetConv(conv, i, c, END)
         [] OTHER ->
              /\ reply' = NoReply
              /\ conv' = SetConv(conv, i, c, ReturnsNone)
    /\ UNCHANGED <<users, transactions, user_data, bot, wh>>

\* handle_buttons, as entry point of the purchase or the points conversation
\* (c) or as the generic text handler (c = "none").
handle_buttons(i, u, c) ==
    /\ Takes(i, u, c, "handle_buttons")
    /\ CASE u \in {BtnAddPurchase, BtnSpend} ->
              IF get_user_info(users, i) = None
              THEN /\ reply' = NoReply
                   /\ conv' = SetConv(conv, i, c, ReturnsNone)
              ELSE /\ reply' = NoReply
                   /\ conv' = SetConv(conv, i, c, IF u = BtnAddPurchase
                                                  THEN ADD_PURCHASE
                                                  ELSE SPEND_POINTS)
         [] u = BtnCancel ->
              /\ reply' = NoReply
              /\ conv' = SetConv(conv, i, c, END)
         [] OTHER ->
              /\ reply' = NoReply
              /\ conv' = SetConv(conv, i, c, ReturnsNone)
    /\ UNCHANGED <<users, transactions, user_data, bot, wh>>

\* cancel_handler returning None: the conversation stays where it is.
cancel_handler_returns_none(i, c) ==
    /\ Takes(i, "/cancel", c, "cancel_handler")
    /\ reply' = NoReply
    /\ conv' = SetConv(conv, i, c, ReturnsNone)
    /\ UNCHANGED <<users, transactions, user_data, bot, wh>>

\* cancel_handler, the /cancel fallback of conversation c
cancel_handler(i, c) ==
    /\ Takes(i, "/cancel", c, "cancel_handler")
    /\ reply' = NoReply
    /\ conv' = SetConv(conv, i, c, END)
    /\ UNCHANGED <<users, transactions, user_data, bot, wh>>

-----------------------------------------------------------------------------
(* Purchase entry.                                                         *)

\* ValidAmount without "if amount <= 0: raise ValueError" for zero
ValidAmount_zero_accepted(text) == IsNumeral(text) /\ Numerals[text] >= 0

\* float(text) succeeds and the amount is > 0
ValidAmount(text) == IsNumeral(text) /\ Numerals[text] > 0

\* add_purchase_handler up to the commit of db.add_purchase
add_purchase_handler(i, u) ==
    /\ Takes(i, u, "purchase", "add_purchase_handler")
    /\ IF u = BtnCancel
       THEN /\ reply' = NoReply
            /\ conv' = SetConv(conv, i, "purchase", END)
            /\ UNCHANGED <<users, transactions, bot>>
       ELSE IF ~ValidAmount(u)
       THEN /\ reply' = Reply(i, "invalid_amount")
            /\ conv' = SetConv(conv, i, "purchase", ADD_PURCHASE)
            /\ UNCHANGED <<users, transactions, bot>>
       ELSE IF get_user_info(users, i) = None
       THEN \* user_info['user_id'] raises TypeError: the update is dropped
            /\ reply' = NoReply
            /\ UNCHANGED <<users, transactions, bot, conv>>
       ELSE /\ LogHasRoom
            /\ LET user_id == get_user_info(users, i).user_id
                   w == add_purchase_write(users, transactions, user_id, Numerals[u])
               IN  /\ users' = w.users
                   /\ transactions' = w.transactions
                   /\ bot' = [pc |-> "add_purchase_select", i |-> i,
                              user_id |-> user_id, amount |-> Numerals[u],
                              points_earned |-> w.earned]
            /\ reply' = NoReply
            /\ conv' = conv
    /\ UNCHANGED <<user_data, wh>>

\* db.add_purchase: SELECT current_points after the commit; then the reply
add_purchase_reply ==
    /\ bot.pc = "add_purchase_select"
    /\ reply' = [to |-> bot.i, msg |-> "purchase_registered",
                 amount |-> bot.amount, points_earned |-> bot.points_earned,
                 new_balance |-> users[bot.user_id].current_points]
    /\ conv' = SetConv(conv, bot.i, "purchase", END)
    /\ bot' = BotIdle
    /\ UNCHANGED <<users, transactions, user_data, wh>>

-----------------------------------------------------------------------------
(* Redemption.                                                             *)

\* int(text) succeeds and the number is > 0
ValidPoints(text) == IsNumeral(text) /\ Numerals[text] > 0

\* spend_points_handler keeping points_to_spend and user_id in one dict that
\* all sessions share instead of context.user_data.
spend_points_handler_shared_dict(i, u) ==
    /\ Takes(i, u, "points", "spend_points_handler")
    /\ IF u = BtnCancel
       THEN /\ reply' = NoReply
            /\ conv' = SetConv(conv, i, "points", END)
            /\ user_data' = user_data
       ELSE IF ~ValidPoints(u)
       THEN /\ reply' = NoReply
            /\ conv' = SetConv(conv, i, "points", SPEND_POINTS)
            /\ user_data' = user_data
       ELSE IF get_user_info(users, i) = None
       THEN /\ reply' = NoReply
            /\ UNCHANGED <<conv, user_data>>
       ELSE LET user_info == get_user_info(users, i)
                points_to_spend == Numerals[u]
            IN  IF points_to_spend > user_info.current_points
                THEN /\ reply' = [to |-> i, msg |-> "insufficient_points",
                                  balance |-> user_info.current_points]
                     /\ conv' = SetConv(conv, i, "points", SPEND_POINTS)
                     /\ user_data' = user_data
                ELSE /\ user_data' =
                          [j \in DOMAIN user_data |->
                              DictSet(DictSet(user_data[j], "points_to_spend",
                                              points_to_spend),
                                      "user_id", user_info.user_id)]
                     /\ reply' = NoReply
                     /\ conv' = SetConv(conv, i, "points", CHECK_BALANCE)
    /\ UNCHANGED <<users, transactions, bot, wh>>

spend_points_handler(i, u) ==
    /\ Takes(i, u, "points", "spend_points_handler")
    /\ IF u = BtnCancel
       THEN /\ reply' = NoReply
            /\ conv' = SetConv(conv, i, "points", END)
            /\ user_data' = user_data
       ELSE IF ~ValidPoints(u)
       THEN /\ reply' = NoReply
            /\ conv' = SetConv(conv, i, "points", SPEND_POINTS)
            /\ user_data' = user_data
       ELSE IF get_user_info(users, i) = None
       THEN \* user_info['current_points'] raises TypeError
            /\ reply' = NoReply
            /\ UNCHANGED <<conv, user_data>>
       ELSE LET user_info == get_user_info(users, i)
                points_to_spend == Numerals[u]
            IN  IF points_to_spend > user_info.current_points
                THEN /\ reply' = [to |-> i, msg |-> "insufficient_points",
                                  balance |-> user_info.current_points]
                     /\ conv' = SetConv(conv, i, "points", SPEND_POINTS)
                     /\ user_data' = user_data
                ELSE /\ user_data' =
                          [user_data EXCEPT ![i] =
                              DictSet(DictSet(@, "points_to_spend", points_to_spend),
                                      "user_id", user_info.user_id)]
                     /\ reply' = NoReply
                     /\ conv' = SetConv(conv, i, "points", CHECK_BALANCE)
    /\ UNCHANGED <<users, transactions, bot, wh>>

\* calculate_discount_handler up to the balance check of db.spend_points:
\* SELECT current_points and "if current_points < points_to_spend"
calculate_discount_handler(i, u) ==
    /\ Takes(i, u, "points", "calculate_discount_handler")
    /\ IF u = BtnCancel
       THEN /\ reply' = NoReply
            /\ conv' = SetConv(conv, i, "points", END)
            /\ bot' = bot
       ELSE IF ~ValidAmount(u)
       THEN /\ reply' = NoReply
            /\ conv' = SetConv(conv, i, "points", CHECK_BALANCE)
            /\ bot' = bot
       ELSE LET points_to_spend == DictGet(user_data[i], "points_to_spend")
                user_id == DictGet(user_data[i], "user_id")
                current_points == users[user_id].current_points
            IN  IF SpendRefused(current_points, points_to_spend, Some(Numerals[u]))
                THEN \* spend_points returns (False, current_points, 0.0)
                     /\ bot' = [pc |-> "spend_refused", i |-> i, user_id |-> user_id,
                                points_to_spend |-> points_to_spend,
                                purchase_amount |-> Numerals[u],
                                ret |-> <<FALSE, current_points, 0>>]
                     /\ reply' = NoReply
                     /\ conv' = conv
                ELSE /\ bot' = [pc |-> "spend_update", i |-> i, user_id |-> user_id,
                                points_to_spend |-> points_to_spend,
                                purchase_amount |-> Numerals[u],
                                current_points |-> current_points]
                     /\ reply' = NoReply
                     /\ conv' = conv
    /\ UNCHANGED <<users, transactions, user_data, wh>>

\* calculate_discount_handler after spend_points returned success = False:
\* the error text, and the conversation ends
spend_refused_reply ==
    /\ bot.pc = "spend_refused"
    /\ reply' = Reply(bot.i, "spend_error")
    /\ conv' = SetConv(conv, bot.i, "points", END)
    /\ bot' = BotIdle
    /\ UNCHANGED <<users, transactions, user_data, wh>>

\* db.spend_points: the clamp, the UPDATE, the INSERT and the commit
spend_points_update ==
    /\ bot.pc = "spend_update"
    /\ LogHasRoom
    /\ LET w == spend_points_write(users, transactions, bot.user_id,
                                   bot.points_to_spend, Some(bot.purchase_amount))
       IN  /\ users' = w.users
           /\ transactions' = w.transactions
           /\ bot' = [pc |-> "spend_select", i |-> bot.i, user_id |-> bot.user_id,
                      points_to_spend |-> bot.points_to_spend,
                      purchase_amount |-> bot.purchase_amount,
                      discount |-> w.discount]
    /\ UNCHANGED <<conv, user_data, reply, wh>>

\* db.spend_points: SELECT current_points after the commit and return
\* (True, new_balance, discount); then the reply of calculate_discount_handler,
\* which reports its own points_to_spend
spend_points_reply ==
    /\ bot.pc = "spend_select"
    /\ reply' = [to |-> bot.i, msg |-> "points_spent",
                 points_to_spend |-> bot.points_to_spend,
                 discount |-> bot.discount,
                 purchase_amount |-> bot.purchase_amount,
                 new_balance |-> users[bot.user_id].current_points]
    /\ conv' = SetConv(conv, bot.i, "points", END)
    /\ bot' = BotIdle
    /\ UNCHANGED <<users, transactions, user_data, wh>>

-----------------------------------------------------------------------------
(* Administration.                                                         *)

\* admin_panel without "if user.id not in ADMINS"
admin_panel_unchecked(i) ==
    /\ Takes(i, "/admin", "admin", "admin_panel")
    /\ reply' = NoReply
    /\ conv' = SetConv(conv, i, "admin", ADMIN_MENU)
    /\ UNCHANGED <<users, transactions, user_data, bot, wh>>

admin_panel(i) ==
    /\ Takes(i, "/admin", "admin", "admin_panel")
    /\ IF i \notin ADMINS
       THEN /\ reply' = NoReply
            /\ conv' = SetConv(conv, i, "admin", ReturnsNone)
       ELSE /\ reply' = NoReply
            /\ conv' = SetConv(conv, i, "admin", ADMIN_MENU)
    /\ UNCHANGED <<users, transactions, user_data, bot, wh>>

handle_admin_buttons(i, u) ==
    /\ Takes(i, u, "admin", "handle_admin_buttons")
    /\ IF i \notin ADMINS
       THEN /\ reply' = NoReply
            /\ conv' = SetConv(conv, i, "admin", END)
       ELSE CASE u = BtnAdminAddPoints ->
                   /\ reply' = NoReply
                   /\ conv' = SetConv(conv, i, "admin", ADMIN_ADD_USER)
              [] u = BtnAdminEdit ->
                   /\ reply' = NoReply
                   /\ conv' = SetConv(conv, i, "admin", ADMIN_EDIT_USER)
              [] u = BtnMainMenu ->
                   /\ reply' = NoReply
                   /\ conv' = SetConv(conv, i, "admin", END)
              [] OTHER ->
                   /\ reply' = NoReply
                   /\ conv' = SetConv(conv, i, "admin", ReturnsNone)
    /\ UNCHANGED <<users, transactions, user_data, bot, wh>>

\* parts = text.split(); len(parts) == 2 and both parts are integers
ValidUserAndPoints(text) ==
    /\ Len(Split(text)) = 2
    /\ IsNumeral(Split(text)[1])
    /\ IsNumeral(Split(text)[2])

\* admin_add_points_handler up to db.get_user_by_id
admin_add_points_handler(i, u) ==
    /\ Takes(i, u, "admin", "admin_add_points_handler")
    /\ IF u = BtnCancel
       THEN /\ reply' = NoReply
            /\ conv' = SetConv(conv, i, "admin", ADMIN_MENU)
            /\ bot' = bot
       ELSE IF ~ValidUserAndPoints(u)
       THEN /\ reply' = NoReply
            /\ conv' = SetConv(conv, i, "admin", ADMIN_ADD_USER)
            /\ bot' = bot
       ELSE LET user_id == Numerals[Split(u)[1]]
                points == Numerals[Split(u)[2]]
                user_info == get_user_by_id(users, user_id)
            IN  IF user_info = None
                THEN /\ reply' = NoReply
                     /\ conv' = SetConv(conv, i, "admin", ADMIN_ADD_USER)
                     /\ bot' = bot
                ELSE /\ LogHasRoom
                     /\ bot' = [pc |-> "admin_update", i |-> i, user_id |-> user_id,
                                points |-> points,
                                current_points |-> user_info.current_points]
                     /\ reply' = NoReply
                     /\ conv' = conv
    /\ UNCHANGED <<users, transactions, user_data, wh>>

\* db.update_user_points and the reply, whose new balance is computed from the
\* row get_user_by_id returned
admin_add_points_update ==
    /\ bot.pc = "admin_update"
    /\ LogHasRoom
    /\ LET w == update_user_points(users, transactions, bot.user_id, bot.points)
       IN  /\ users' = w.users
           /\ transactions' = w.transactions
    /\ reply' = [to |-> bot.i, msg |-> "points_changed", user_id |-> bot.user_id,
                 points |-> bot.points,
                 new_balance |-> bot.current_points + bot.points]
    /\ conv' = SetConv(conv, bot.i, "admin", ADMIN_MENU)
    /\ bot' = BotIdle
    /\ UNCHANGED <<user_data, wh>>

admin_edit_user_handler(i, u) ==
    /\ Takes(i, u, "admin", "admin_edit_user_handler")
    /\ IF u = BtnCancel
       THEN /\ reply' = NoReply
            /\ conv' = SetConv(conv, i, "admin", ADMIN_MENU)
       ELSE IF ~IsNumeral(u)
       THEN /\ reply' = NoReply
            /\ conv' = SetConv(conv, i, "admin", ADMIN_EDIT_USER)
       ELSE IF get_user_by_id(users, Numerals[u]) = None
       THEN /\ reply' = NoReply
            /\ conv' = SetConv(conv, i, "admin", ADMIN_EDIT_USER)
       ELSE /\ reply' = NoReply
            /\ conv' = SetConv(conv, i, "admin", ADMIN_MENU)
    /\ UNCHANGED <<users, transactions, user_data, bot, wh>>

-----------------------------------------------------------------------------
(* The program: the polling thread and the webhook thread.                 *)

\* The updates of identity i the polling thread can take now: none while a
\* handler runs; Extra are texts offered in every state of the dialogue.
Pending(i, Extra) ==
    IF bot.pc = "idle" THEN Updates(conv, i) \cup Extra ELSE {}

\* The updates that can reach a handler registered for state st of
\* conversation c.
PendingIn(i, Extra, c, st) ==
    IF conv[i][c] = st THEN Pending(i, Extra) ELSE {}

\* The polling thread.  Ids: the identities that write to the bot; Extra: texts
\* they send besides Updates.
Dialogue(Ids, Extra) ==
    \/ \E i \in Ids : start(i)
    \/ \E i \in Ids : \E u \in PendingIn(i, Extra, "user", PHONE) :
          get_phone(i, u)
    \/ \E i \in Ids : \E u \in PendingIn(i, Extra, "user", NAME) :
          get_name(i, u)
    \/ \E i \in Ids : \E u \in PendingIn(i, Extra, "user", GENDER) :
          get_gender(i, u)
    \/ \E i \in Ids : \E u \in Pending(i, Extra) :
          \E c \in {"purchase", "points", "none"} : handle_buttons(i, u, c)
    \/ \E i \in Ids, c \in Convs : cancel_handler(i, c)
    \/ \E i \in Ids : \E u \in PendingIn(i, Extra, "purchase", ADD_PURCHASE) :
          add_purchase_handler(i, u)
    \/ add_purchase_reply
    \/ \E i \in Ids : \E u \in PendingIn(i, Extra, "points", SPEND_POINTS) :
          spend_points_handler(i, u)
    \/ \E i \in Ids : \E u \in PendingIn(i, Extra, "points", CHECK_BALANCE) :
          calculate_discount_handler(i, u)
    \/ spend_refused_reply
    \/ spend_points_update
    \/ spend_points_reply
    \/ \E i \in Ids : admin_panel(i)
    \/ \E i \in Ids : \E u \in PendingIn(i, Extra, "admin", ADMIN_MENU) :
          handle_admin_buttons(i, u)
    \/ \E i \in Ids : \E u \in PendingIn(i, Extra, "admin", ADMIN_ADD_USER) :
          admin_add_points_handler(i, u)
    \/ admin_add_points_update
    \/ \E i \in Ids : \E u \in PendingIn(i, Extra, "admin", ADMIN_EDIT_USER) :
          admin_edit_user_handler(i, u)

\* The polling thread and the webhook thread; P: the payloads terminals send.
Program(Ids, Extra, P) ==
    \/ Dialogue(Ids, Extra)
    \/ \E k \in P : WebhookReceive(k)
    \/ WebhookUpdate
    \/ WebhookRespond
    \/ WebhookReturn

\* The payloads of Spec: the three purchases and the receipt without a code.
MainPayloads == {1, 2, 3, 4}

Next == Program(Identities, {}, MainPayloads)

Spec == Init /\ [][Next]_vars

-----------------------------------------------------------------------------
(* LoyaltyDB called directly, one call at a time, as a caller other than   *)
(* the dialogue may call it: any identity, registered or not, and any      *)
(* user_id.  reply holds what the call returned.                           *)

\* The names and the user_ids callers pass.
DbTelegramIds == {501, 502}
DbNames == {"Ann", "Bob"}
DbUserIds == 1..3
DbAmounts == {30, 6000}
DbPoints == {6000, -150}

DbAddUser(telegram_id, name) ==
    /\ UserIdsByTelegram(users, telegram_id) = {} => LogHasRoom
    /\ LET r == add_user(users, transactions, telegram_id, name, "None", "None")
       IN  /\ users' = r.users
           /\ transactions' = r.transactions
           /\ reply' = [msg |-> "add_user", telegram_id |-> telegram_id,
                        name |-> name, ret |-> r.ret]
    /\ UNCHANGED <<conv, user_data, bot, wh>>

\* add_purchase commits its UPDATE and INSERT; the SELECT that follows finds no
\* row for a user_id that has no account, and fetchone()[0] raises TypeError.
DbAddPurchase(user_id, amount) ==
    /\ LogHasRoom
    /\ LET w == add_purchase_write(users, transactions, user_id, amount)
       IN  /\ users' = w.users
           /\ transactions' = w.transactions
           /\ reply' = IF user_id \in 1..Len(users)
                       THEN [msg |-> "add_purchase", user_id |-> user_id,
                             ret |-> <<w.earned, w.users[user_id].current_points>>]
                       ELSE [msg |-> "add_purchase", user_id |-> user_id,
                             raised |-> "TypeError"]
    /\ UNCHANGED <<conv, user_data, bot, wh>>

DbUpdateUserPoints(user_id, points) ==
    /\ LogHasRoom
    /\ LET w == update_user_points(users, transactions, user_id, points)
       IN  /\ users' = w.users
           /\ transactions' = w.transactions
    /\ reply' = [msg |-> "update_user_points", user_id |-> user_id, ret |-> TRUE]
    /\ UNCHANGED <<conv, user_data, bot, wh>>

NextDB ==
    \/ \E t \in DbTelegramIds, n \in DbNames : DbAddUser(t, n)
    \/ \E user_id \in DbUserIds, a \in DbAmounts : DbAddPurchase(user_id, a)
    \/ \E user_id \in DbUserIds, pts \in DbPoints : DbUpdateUserPoints(user_id, pts)

SpecDB == Init /\ [][NextDB]_vars

-----------------------------------------------------------------------------
(* The webhook alone, with every payload of the model, on accounts that    *)
(* add_user has created.                                                   *)

NextWebhook ==
    \/ \E t \in DbTelegramIds, n \in DbNames : DbAddUser(t, n)
    \/ \E data \in AllPayloads : WebhookRequest(data)
    \/ WebhookUpdate
    \/ \E sent \in BOOLEAN : WebhookNotify(sent)
    \/ WebhookReturn

SpecWebhook == Init /\ [][NextWebhook]_vars

-----------------------------------------------------------------------------
(* The dialogue of two customers, each with a session of its own: the      *)
(* registration, the purchase entry and the redemption, in which the       *)
(* customers also send "100", a second number of points their balance      *)
(* covers.  The administrator takes part by the adjustment alone.          *)

RedeemIdentities == {501, 502}

InitRedeem ==
    /\ users = <<>>
    /\ transactions = <<>>
    /\ conv = [i \in RedeemIdentities |-> ConvIdle]
    /\ user_data = [i \in RedeemIdentities |-> EmptyDict]
    /\ bot = BotIdle
    /\ reply = NoReply
    /\ wh = WhIdle

\* admin_add_points_handler for an account that exists, between two updates
\* of the customers: db.update_user_points.
AdminAdjusts(user_id, points) ==
    /\ bot.pc = "idle"
    /\ get_user_by_id(users, user_id) # None
    /\ DbUpdateUserPoints(user_id, points)

NextRedeem ==
    \/ \E i \in RedeemIdentities : start(i)
    \/ \E i \in RedeemIdentities :
          \E u \in PendingIn(i, {}, "user", PHONE) : get_phone(i, u)
    \/ \E i \in RedeemIdentities :
          \E u \in PendingIn(i, {}, "user", NAME) : get_name(i, u)
    \/ \E i \in RedeemIdentities :
          \E u \in PendingIn(i, {}, "user", GENDER) : get_gender(i, u)
    \/ \E i \in RedeemIdentities : \E u \in Pending(i, {}) :
          \E c \in {"purchase", "points", "none"} : handle_buttons(i, u, c)
    \/ \E i \in RedeemIdentities, c \in Convs : cancel_handler(i, c)
    \/ \E i \in RedeemIdentities :
          \E u \in PendingIn(i, {}, "purchase", ADD_PURCHASE) :
              add_purchase_handler(i, u)
    \/ add_purchase_reply
    \/ \E i \in RedeemIdentities :
          \E u \in PendingIn(i, {"100"}, "points", SPEND_POINTS) :
              spend_points_handler(i, u)
    \/ \E i \in RedeemIdentities :
          \E u \in PendingIn(i, {}, "points", CHECK_BALANCE) :
              calculate_discount_handler(i, u)
    \/ spend_refused_reply
    \/ spend_points_update
    \/ spend_points_reply
    \/ \E user_id \in DbUserIds : AdminAdjusts(user_id, -150)

SpecRedeem == InitRedeem /\ [][NextRedeem]_vars

-----------------------------------------------------------------------------
(* The dialogue alone, with the Cancel button text sent in every state,    *)
(* the registration states included.                                       *)

NextDialogue == Dialogue(Identities, {BtnCancel})

SpecDialogue == Init /\ [][NextDialogue]_vars

\* A handler that has started runs on to its reply.
BotStep ==
    \/ add_purchase_reply
    \/ spend_refused_reply
    \/ spend_points_update
    \/ spend_points_reply
    \/ admin_add_points_update

\* The dialogue of a user who keeps sending /cancel: a /cancel that can be
\* taken again and again is taken.  The conversations listed are those that
\* can be in progress: a customer's registration, purchase and points
\* conversations and an administrator's admin conversation.
CancelFairness ==
    /\ \A i \in Customers : \A c \in {"user", "purchase", "points"} :
          SF_vars(cancel_handler(i, c))
    /\ \A i \in ADMINS : SF_vars(cancel_handler(i, "admin"))
    /\ WF_vars(BotStep)

\* The dialogue with the texts each state offers.
NextCancel == Dialogue(Identities, {})

SpecCancel == Init /\ [][NextCancel]_vars /\ CancelFairness

-----------------------------------------------------------------------------
(* The ledger: balances against the transaction log.                       *)

\* The sum of points_change over the first n rows of txs that belong to user_id.
RECURSIVE SumPointsChange(_, _, _)
SumPointsChange(txs, user_id, n) ==
    IF n = 0 THEN 0
    ELSE SumPointsChange(txs, user_id, n - 1)
         + (IF txs[n].user_id = user_id THEN txs[n].points_change ELSE 0)

\* The types of the rows the log holds for user_id.
TypesOf(user_id) ==
    {transactions[k].type :
        k \in {j \in 1..Len(transactions) : transactions[j].user_id = user_id}}

\* The texts that float() accepts as a positive amount.
AmountTexts == {t \in CustomerTexts : ValidAmount(t)}

\* C1: in every reachable state every account's current_points is >= 0.
C1_BalanceNonNegative ==
    \A i \in 1..Len(users) : users[i].current_points >= 0

\* C2: in every reachable state, the one right after a registration included,
\* every account has current_points <= total_points.
C2_BalanceAtMostLifetime ==
    \A i \in 1..Len(users) : users[i].current_points <= users[i].total_points

\* C3: in every reachable state every account's current_points is the sum of
\* points_change over the transaction rows of that account.
C3_BalanceIsSumOfLog ==
    \A i \in 1..Len(users) :
        users[i].current_points = SumPointsChange(transactions, i, Len(transactions))

\* An account whose log holds its bonus, an administrative adjustment and a
\* redemption that the clamp reduced.
C3_Witness ==
    \E i \in 1..Len(users) :
        /\ {"bonus", "admin", "spend"} \subseteq TypesOf(i)
        /\ bot.pc = "spend_select"
        /\ bot.user_id = i
        /\ -transactions[Len(transactions)].points_change < bot.points_to_spend

-----------------------------------------------------------------------------
(* Concurrency of the bot thread and the webhook thread.                   *)

\* C4: the balance check of spend_points and its decrement are one atomic
\* step: when the decrement is about to be written, the account still holds
\* the points the check admitted, whatever the other thread has done meanwhile.
C4_CheckHoldsAtDecrement ==
    bot.pc = "spend_update" =>
        users[bot.user_id].current_points >= bot.points_to_spend

\* C5: a purchase recording adds exactly the points it earned to the balance
\* stored at the moment it commits, and appends exactly one 'purchase' row,
\* also when the other thread has committed a purchase on the same account
\* since this one read the account; and both calls report success.
C5_PurchasesNotLost ==
    [][ /\ WebhookUpdate =>
             /\ users'[wh.row.user_id].current_points =
                    users[wh.row.user_id].current_points + PointsEarned(wh.amount)
             /\ Len(transactions') = Len(transactions) + 1
             /\ transactions'[Len(transactions')].type = "purchase"
             /\ transactions'[Len(transactions')].user_id = wh.row.user_id
        /\ WebhookRespond => wh'.resp.status = "ok"
        /\ \A i \in Identities : \A u \in AmountTexts :
             (bot'.pc = "add_purchase_select" /\ add_purchase_handler(i, u)) =>
                 /\ users'[bot'.user_id].current_points =
                        users[bot'.user_id].current_points + PointsEarned(Numerals[u])
                 /\ Len(transactions') = Len(transactions) + 1
                 /\ transactions'[Len(transactions')].type = "purchase"
                 /\ transactions'[Len(transactions')].user_id = bot'.user_id
        /\ add_purchase_reply => reply'.msg = "purchase_registered"
      ]_vars

\* Both threads have committed a purchase on the same account, the webhook
\* having read the account before the dialogue's commit: the balance holds the
\* points of both and the log ends with the two rows.
C5_Witness ==
    /\ wh.pc = "select"
    /\ bot.pc = "add_purchase_select"
    /\ bot.user_id = wh.row.user_id
    /\ users[bot.user_id].current_points =
           wh.row.current_points + wh.earned + bot.points_earned
    /\ Len(transactions) >= 3
    /\ transactions[Len(transactions) - 1].description[1] = "purchase"
    /\ transactions[Len(transactions)].description[1] = "purchase via Evotor"

-----------------------------------------------------------------------------
(* Registration.                                                           *)

\* C6: add_user for an identity that has an account returns that account's
\* user_id and qr_code and changes no row of users or transactions; and an
\* account has exactly one 'bonus' row however often add_user is called.
C6_RegisterIdempotent ==
    /\ [][ \A t \in DbTelegramIds : \A n \in DbNames :
             (DbAddUser(t, n) /\ UserIdsByTelegram(users, t) # {}) =>
                 /\ users' = users
                 /\ transactions' = transactions
                 /\ \E id \in UserIdsByTelegram(users, t) :
                        reply'.ret = <<id, generate_qr_code(id)>>
         ]_vars
    /\ [](\A i \in 1..Len(users) :
             Cardinality({k \in 1..Len(transactions) :
                             /\ transactions[k].user_id = i
                             /\ transactions[k].type = "bonus"}) = 1)

\* add_user has just returned for an identity registered under another name,
\* whose balance has moved since its registration.
C6_Witness ==
    /\ reply.msg = "add_user"
    /\ Len(users) = 2
    /\ users[reply.ret[1]].telegram_id = reply.telegram_id
    /\ users[reply.ret[1]].name # reply.name
    /\ users[reply.ret[1]].current_points # welcome_bonus

-----------------------------------------------------------------------------
(* Redemption.                                                             *)

\* floor(purchase_amount * max_discount / 100 / discount_per_point), with
\* discount_per_point in hundredths of a percent
C8_MaxPoints(purchase_amount) ==
    (purchase_amount * max_discount) \div discount_per_point

\* C7: spend_points asked for more points than the account holds returns
\* failure, whether or not the clamp would bring the request within the
\* balance, and writes nothing to users or transactions.
C7_InsufficientBalanceRefused ==
    [][ /\ \A i \in Identities : \A u \in AmountTexts :
             ( /\ calculate_discount_handler(i, u)
               /\ ValidAmount(u)
               /\ DictGet(user_data[i], "points_to_spend")
                      > users[DictGet(user_data[i], "user_id")].current_points ) =>
                 /\ bot'.pc = "spend_refused"
                 /\ bot'.ret = <<FALSE,
                                 users[DictGet(user_data[i], "user_id")].current_points,
                                 0>>
                 /\ UNCHANGED <<users, transactions>>
        /\ spend_refused_reply => UNCHANGED <<users, transactions>>
      ]_vars

\* spend_points has refused a request above the balance that the clamp would
\* have brought within the balance.
C7_Witness ==
    /\ bot.pc = "spend_refused"
    /\ bot.points_to_spend > users[bot.user_id].current_points
    /\ ClampPoints(bot.points_to_spend, Some(bot.purchase_amount))
           <= users[bot.user_id].current_points
    /\ users[bot.user_id].current_points = bot.ret[2]

C9_DeductedWithinPercentCap ==
    \A k \in 1..Len(transactions) :
        transactions[k].type = "spend" =>
            (-transactions[k].points_change) * discount_per_point
                <= max_discount * 100

\* C10: the discount a successful spend_points returns, and the one the reply
\* reports, is at most max_discount percent.
C10_DiscountAtMostMax ==
    /\ bot.pc = "spend_select" => bot.discount <= max_discount * 100
    /\ reply.msg = "points_spent" => reply.discount <= max_discount * 100

\* spend_points has returned max_discount for points worth more than that.
C10_Witness ==
    /\ bot.pc = "spend_select"
    /\ bot.discount = max_discount * 100
    /\ (-transactions[Len(transactions)].points_change) * discount_per_point
           > max_discount * 100

-----------------------------------------------------------------------------
(* Purchases.                                                              *)

\* floor(amount * points_per_purchase), points_per_purchase a percentage
C11_Floor(amount) == (amount * points_per_purchase) \div 100

\* This step adds the purchase of amount to account user_id: the points to
\* current_points and total_points, the amount to total_purchases, one
\* 'purchase' row with the amount and the points, and nothing else.
C11_Recorded(user_id, amount) ==
    /\ users' = [users EXCEPT
                    ![user_id].current_points = @ + C11_Floor(amount),
                    ![user_id].total_points = @ + C11_Floor(amount),
                    ![user_id].total_purchases = @ + amount]
    /\ Len(transactions') = Len(transactions) + 1
    /\ SubSeq(transactions', 1, Len(transactions)) = transactions
    /\ LET row == transactions'[Len(transactions')]
       IN  /\ row.user_id = user_id
           /\ row.type = "purchase"
           /\ row.amount = Some(amount)
           /\ row.points_change = C11_Floor(amount)

C12_LifetimeTotalsNeverDecrease ==
    [][ \A i \in 1..Len(users) :
          /\ users'[i].total_purchases >= users[i].total_purchases
          /\ users'[i].total_points >= users[i].total_points
      ]_vars

-----------------------------------------------------------------------------
(* The webhook.                                                            *)

\* evotor_webhook finds in the payload a customer code and an amount that is a
\* positive number.
C13_PositiveAmountAndCode(data) ==
    /\ WebhookParse(data).outcome = "purchase"
    /\ WebhookParse(data).total_float > 0

\* C13: a payload the handler can read (a JSON object) without a locatable
\* amount or code, or whose amount is zero, negative or unparsable, gets the
\* response ignored, and no purchase is written for it.
C13_NoPositiveAmountIgnored ==
    [][ /\ \A data \in AllPayloads :
             ( /\ WebhookRequest(data)
               /\ WebhookParse(data).outcome # "raise"
               /\ ~C13_PositiveAmountAndCode(data) ) =>
                 /\ wh'.pc = "return"
                 /\ wh'.resp.status = "ignored"
                 /\ UNCHANGED <<users, transactions>>
        /\ WebhookUpdate => wh.amount > 0
      ]_vars

\* C14: whatever the payload, evotor_webhook raises nothing and returns a
\* response whose status is ok, ignored, not_found or error.
C14_StructuredResult ==
    /\ wh.pc \in {"idle", "update", "select", "return"}
    /\ wh.pc = "return" =>
           wh.resp.status \in {"ok", "ignored", "not_found", "error"}

\* The handler has caught an exception and returns the error response.
C14_Witness ==
    /\ wh.pc = "return"
    /\ wh.resp = [status |-> "error", message |-> "exception"]

\* C15: every payload that carries a positive amount and the code of an
\* account, each under any of the names and in any of the places the webhook
\* tolerates, goes on to record the purchase; a payload with neither is
\* ignored.
C15_EveryCombinationRecorded ==
    [][ /\ \A data \in ComboPayloads :
             (WebhookRequest(data) /\ UserIdsByQr(users, "001-c4c") # {}) =>
                 wh'.pc = "update"
        /\ WebhookRequest(Payloads[11]) =>
             (wh'.pc = "return" /\ wh'.resp.status = "ignored")
      ]_vars

\* The payload carries an amount and a code that is a string.
C16_WellFormed(data) ==
    /\ WebhookParse(data).outcome = "purchase"
    /\ WebhookParse(data).qr_code.t = "str"

\* C16: a well-formed payload whose code is the qr_code of no account gets the
\* response not_found, and neither that step nor the return of the response
\* writes to users or transactions.
C16_UnknownCodeNotFound ==
    [][ /\ \A data \in AllPayloads :
             ( /\ WebhookRequest(data)
               /\ C16_WellFormed(data)
               /\ UserIdsByQr(users, WebhookParse(data).qr_code.s) = {} ) =>
                 /\ wh'.pc = "return"
                 /\ wh'.resp.status = "not_found"
                 /\ UNCHANGED <<users, transactions>>
        /\ (WebhookReturn /\ wh.resp.status = "not_found") =>
             UNCHANGED <<users, transactions>>
      ]_vars

\* not_found is being returned although the account of code 001-c4c exists,
\* and the log holds nothing but bonus rows.
C16_Witness ==
    /\ wh.pc = "return"
    /\ wh.resp.status = "not_found"
    /\ UserIdsByQr(users, "001-c4c") # {}
    /\ \A k \in 1..Len(transactions) : transactions[k].type = "bonus"

\* C17: when the notification fails after the purchase is committed, the
\* webhook still returns ok with the points and the balance, and the step
\* leaves users and transactions, with the row of the purchase, as committed.
C17_NotificationFailureKeepsPurchase ==
    [][ \A sent \in BOOLEAN :
          WebhookNotify(sent) =>
              /\ wh'.pc = "return"
              /\ wh'.resp.status = "ok"
              /\ wh'.resp.points = wh.earned
              /\ wh'.resp.balance = users[wh.row.user_id].current_points
              /\ UNCHANGED <<users, transactions>>
              /\ \E k \in 1..Len(transactions') :
                    /\ transactions'[k].user_id = wh.row.user_id
                    /\ transactions'[k].description[1] = "purchase via Evotor"
                    /\ transactions'[k].points_change = wh.earned
      ]_vars

\* ok is being returned for a purchase whose notification was not delivered.
C17_Witness ==
    /\ wh.pc = "return"
    /\ wh.resp.status = "ok"
    /\ reply.msg = "purchase_notification"
    /\ ~reply.delivered
    /\ reply.earned = wh.resp.points
    /\ wh.resp.points > 0

\* C18: add_purchase for a user_id without an account fails, and writes
\* neither to users nor to transactions.
C18_MissingAccountWritesNothing ==
    [][ \A user_id \in DbUserIds : \A a \in DbAmounts :
          (DbAddPurchase(user_id, a) /\ user_id \notin 1..Len(users)) =>
              /\ UNCHANGED <<users, transactions>>
              /\ "raised" \in DOMAIN reply'
      ]_vars

-----------------------------------------------------------------------------
(* Amounts entered in the dialogue.                                        *)

\* The texts float() rejects or reads as an amount <= 0; the Cancel button
\* leaves the flow before the amount is read.
C19_InvalidTexts ==
    {t \in CustomerTexts \ {BtnCancel} : ~IsNumeral(t) \/ Numerals[t] <= 0}

\* C19: a text that is not a number, or a number <= 0, entered in ADD_PURCHASE
\* is answered with the format error, leaves the conversation in ADD_PURCHASE
\* and users and transactions as they are; a valid amount that a registered
\* customer enters after that answer records the purchase.
C19_InvalidAmountStaysInFlow ==
    [][ \A i \in Identities :
          conv[i].purchase = ADD_PURCHASE =>
            /\ \A u \in C19_InvalidTexts :
                 add_purchase_handler(i, u) =>
                     /\ conv'[i].purchase = ADD_PURCHASE
                     /\ reply' = Reply(i, "invalid_amount")
                     /\ UNCHANGED <<users, transactions>>
            /\ \A u \in AmountTexts :
                 ( /\ reply = Reply(i, "invalid_amount")
                   /\ get_user_info(users, i) # None
                   /\ add_purchase_handler(i, u) ) =>
                     /\ C11_Recorded(get_user_info(users, i).user_id, Numerals[u])
                     /\ bot'.pc = "add_purchase_select"
      ]_vars

\* A registered customer has been told that the amount is not valid and is
\* still asked for the amount.
C19_Witness ==
    \E i \in Identities :
        /\ reply = Reply(i, "invalid_amount")
        /\ conv[i].purchase = ADD_PURCHASE
        /\ get_user_info(users, i) # None

\* C20: a redemption refused for insufficient balance, by spend_points_handler
\* or by db.spend_points in calculate_discount_handler, leaves the
\* conversation in SPEND_POINTS; a text that is not a positive amount entered
\* in CHECK_BALANCE leaves it in CHECK_BALANCE.
C20_RefusalReturnsToSpendPoints ==
    [][ /\ \A i \in Identities :
             conv[i].points = SPEND_POINTS =>
               \A u \in CustomerNumbers :
                 ( /\ spend_points_handler(i, u)
                   /\ reply'.msg = "insufficient_points" ) =>
                     conv'[i].points = SPEND_POINTS
        /\ spend_refused_reply => conv'[bot.i].points = SPEND_POINTS
        /\ \A i \in Identities :
             conv[i].points = CHECK_BALANCE =>
               \A u \in C19_InvalidTexts :
                 calculate_discount_handler(i, u) =>
                     conv'[i].points = CHECK_BALANCE
      ]_vars

-----------------------------------------------------------------------------
(* Sessions.                                                               *)

\* No conversation of identity i is in progress.
C21_Idle(i) == \A c \in Convs : conv[i][c] = END

\* C21: when no conversation of an identity is in progress and the bot is
\* between updates, context.user_data of the identity holds no phone, name,
\* points_to_spend or user_id.
C21_SessionFieldsClearedWhenIdle ==
    \A i \in Identities :
        (bot.pc = "idle" /\ C21_Idle(i)) => user_data[i] = EmptyDict

\* C22: for a customer, /cancel in any state of a conversation, and the Cancel
\* button in the states that offer it (ADD_PURCHASE, SPEND_POINTS,
\* CHECK_BALANCE), leaves no conversation of the customer in progress.
C22_CancelReturnsToIdle ==
    [][ \A i \in Customers :
          /\ \A c \in Convs : cancel_handler(i, c) => conv'[i] = ConvIdle
          /\ ( \/ add_purchase_handler(i, BtnCancel)
               \/ spend_points_handler(i, BtnCancel)
               \/ calculate_discount_handler(i, BtnCancel) ) =>
                 conv'[i] = ConvIdle
      ]_vars

\* C23: for an administrator in ADMIN_ADD_USER or ADMIN_EDIT_USER, the Cancel
\* button and the /cancel command both bring the admin conversation back to
\* ADMIN_MENU.
C23_AdminCancelReturnsToMenu ==
    [][ \A i \in ADMINS :
          conv[i].admin \in {ADMIN_ADD_USER, ADMIN_EDIT_USER} =>
            /\ ( \/ admin_add_points_handler(i, BtnCancel)
                 \/ admin_edit_user_handler(i, BtnCancel) ) =>
                   conv'[i].admin = ADMIN_MENU
            /\ cancel_handler(i, "admin") => conv'[i].admin = ADMIN_MENU
      ]_vars

-----------------------------------------------------------------------------
(* Administration.                                                         *)

\* C24: the admin conversation of an identity outside ADMINS never leaves END,
\* and update_user_points runs only for an update of an identity in ADMINS.
C24_AdminOnlyForAdmins ==
    /\ \A i \in Identities \ ADMINS : conv[i].admin = END
    /\ bot.pc = "admin_update" => bot.i \in ADMINS

\* An administrator's update is about to change the balance of a registered
\* customer, whose own admin conversation is at END.
C24_Witness ==
    /\ bot.pc = "admin_update"
    /\ bot.i \in ADMINS
    /\ conv[bot.i].admin = ADMIN_ADD_USER
    /\ \E i \in Customers :
          /\ get_user_info(users, i) # None
          /\ get_user_info(users, i).user_id = bot.user_id
          /\ conv[i].admin = END

\* C25: update_user_points with a signed number of points on an existing
\* account adds the points to current_points and max(points, 0) to
\* total_points, leaves total_purchases and every other account as they are,
\* and appends one 'admin' row whose points_change is the points.
C25_AdjustPointsExact ==
    [][ \A user_id \in DbUserIds : \A pts \in DbPoints :
          (DbUpdateUserPoints(user_id, pts) /\ user_id \in 1..Len(users)) =>
              /\ users' = [users EXCEPT
                              ![user_id].current_points = @ + pts,
                              ![user_id].total_points =
                                  @ + (IF pts > 0 THEN pts ELSE 0)]
              /\ users'[user_id].total_purchases = users[user_id].total_purchases
              /\ Len(transactions') = Len(transactions) + 1
              /\ SubSeq(transactions', 1, Len(transactions)) = transactions
              /\ LET row == transactions'[Len(transactions')]
                 IN  /\ row.user_id = user_id
                     /\ row.type = "admin"
                     /\ row.points_change = pts
      ]_vars

\* An adjustment of -150 has been applied to an account: the balance is below
\* the welcome bonus and total_points has not moved.
C25_Witness ==
    /\ reply.msg = "update_user_points"
    /\ reply.user_id \in 1..Len(users)
    /\ transactions[Len(transactions)].type = "admin"
    /\ transactions[Len(transactions)].points_change = -150
    /\ transactions[Len(transactions)].user_id = reply.user_id
    /\ users[reply.user_id].current_points = welcome_bonus - 150
    /\ users[reply.user_id].total_points = 0

-----------------------------------------------------------------------------
(* Accounts and their codes.                                               *)

\* C26: add_user for a telegram_id without an account appends one account,
\* with current_points = welcome_bonus and qr_code = generate_qr_code of the
\* new user_id, appends one 'bonus' row of welcome_bonus points for it, leaves
\* the other accounts and rows as they are, and returns the user_id with the
\* code.
C26_FirstRegistration ==
    [][ \A t \in DbTelegramIds : \A n \in DbNames :
          ( /\ DbAddUser(t, n)
            /\ \A i \in 1..Len(users) : users[i].telegram_id # t ) =>
              LET user_id == Len(users) + 1
              IN  /\ Len(users') = user_id
                  /\ SubSeq(users', 1, Len(users)) = users
                  /\ users'[user_id].telegram_id = t
                  /\ users'[user_id].current_points = welcome_bonus
                  /\ users'[user_id].qr_code = generate_qr_code(user_id)
                  /\ Len(transactions') = Len(transactions) + 1
                  /\ SubSeq(transactions', 1, Len(transactions)) = transactions
                  /\ transactions'[Len(transactions')].user_id = user_id
                  /\ transactions'[Len(transactions')].type = "bonus"
                  /\ transactions'[Len(transactions')].points_change
                         = welcome_bonus
                  /\ reply'.ret = <<user_id, generate_qr_code(user_id)>>
      ]_vars

\* add_user has just created the second account.
C26_Witness ==
    /\ reply.msg = "add_user"
    /\ reply.ret = <<2, "002-c81">>
    /\ Len(users) = 2
    /\ users[2].telegram_id = reply.telegram_id
    /\ users[2].current_points = welcome_bonus
    /\ transactions[Len(transactions)].type = "bonus"
    /\ transactions[Len(transactions)].user_id = 2

\* The user_ids generate_qr_code is tabulated for.
C27_Ids == DOMAIN Zfill3

\* C27: generate_qr_code gives distinct codes to distinct user_ids; in every
\* reachable state the accounts have pairwise distinct qr_codes, each the code
\* of its user_id; and no step changes the user_id (the position), the
\* telegram_id or the qr_code of an account.
C27_CodesDistinctAndFixed ==
    /\ [](/\ \A a \in C27_Ids : \A b \in C27_Ids :
                a # b => generate_qr_code(a) # generate_qr_code(b)
          /\ \A i \in 1..Len(users) : \A j \in 1..Len(users) :
                i # j => users[i].qr_code # users[j].qr_code
          /\ \A i \in 1..Len(users) : users[i].qr_code = generate_qr_code(i))
    /\ [][ /\ Len(users') >= Len(users)
           /\ \A i \in 1..Len(users) :
                /\ users'[i].telegram_id = users[i].telegram_id
                /\ users'[i].qr_code = users[i].qr_code
         ]_vars

\* Two accounts, each with the code of its user_id, after a purchase or an
\* adjustment has changed the balance of the first.
C27_Witness ==
    /\ Len(users) = 2
    /\ users[1].qr_code = "001-c4c"
    /\ users[2].qr_code = "002-c81"
    /\ users[1].current_points # welcome_bonus
    /\ transactions[Len(transactions)].user_id = 1

-----------------------------------------------------------------------------
(* The transaction log.                                                    *)

\* C28: every step keeps the rows the log holds, in place and unchanged, and
\* only adds rows after them.
C28_LogAppendOnly ==
    [][ /\ Len(transactions') >= Len(transactions)
        /\ SubSeq(transactions', 1, Len(transactions)) = transactions
      ]_vars

\* The log holds a bonus, a purchase and an adjustment, and a redemption has
\* just added its row.
C28_Witness ==
    /\ Len(transactions) = MaxTx
    /\ bot.pc = "spend_select"
    /\ transactions[1].type = "bonus"
    /\ transactions[Len(transactions)].type = "spend"
    /\ \E k \in 1..Len(transactions) : transactions[k].type \in {"purchase", "admin"}

\* The balance of account i before a step, 0 for an account the step creates.
C29_Before(i) == IF i \in 1..Len(users) THEN users[i].current_points ELSE 0

\* C29: a step that changes the balance of an account appends exactly one row,
\* of that account, whose points_change is the change of the balance; a step
\* that appends a row appends one, for an account that exists, whose balance
\* it changes by the row's points_change; no other balance changes.
C29_BalanceChangePairedWithRow ==
    [][ /\ Len(transactions') \in {Len(transactions), Len(transactions) + 1}
        /\ Len(transactions') = Len(transactions) =>
               \A i \in 1..Len(users') :
                   users'[i].current_points = C29_Before(i)
        /\ Len(transactions') = Len(transactions) + 1 =>
               LET row == transactions'[Len(transactions')]
               IN  /\ row.user_id \in 1..Len(users')
                   /\ \A i \in 1..Len(users') :
                         users'[i].current_points - C29_Before(i)
                             = IF i = row.user_id THEN row.points_change ELSE 0
      ]_vars

\* A redemption has just been committed: its row is the last of the log and
\* the balance is the sum of the account's rows.
C29_Witness ==
    /\ bot.pc = "spend_select"
    /\ transactions[Len(transactions)].type = "spend"
    /\ transactions[Len(transactions)].user_id = bot.user_id
    /\ transactions[Len(transactions)].points_change < 0
    /\ users[bot.user_id].current_points
           = SumPointsChange(transactions, bot.user_id, Len(transactions))

\* C30: the reply to a successful redemption reports as spent the points that
\* spend_points took from the balance (the clamped number), and as new balance
\* the balance of the account, which the redemption lowered by that number.
C30_ReportedPointsAreDeducted ==
    [][ /\ spend_points_update =>
             users'[bot.user_id].current_points
                 = users[bot.user_id].current_points
                     - ClampPoints(bot.points_to_spend, Some(bot.purchase_amount))
        /\ spend_points_reply =>
             /\ reply'.points_to_spend
                    = ClampPoints(bot.points_to_spend, Some(bot.purchase_amount))
             /\ reply'.new_balance = users[bot.user_id].current_points
      ]_vars

-----------------------------------------------------------------------------
(* Progress of the dialogue.                                               *)

\* The model's log is full while spend_points waits to insert its row: the
\* model, not the program, stops here.
C31_LogFull == bot.pc = "spend_update" /\ ~LogHasRoom

C33_CancelTextChangesNoLedger ==
    [][ \A i \in Identities :
          ( \/ get_phone(i, BtnCancel)
            \/ get_name(i, BtnCancel)
            \/ get_gender(i, BtnCancel)
            \/ \E c \in {"purchase", "points", "none"} :
                  handle_buttons(i, BtnCancel, c)
            \/ add_purchase_handler(i, BtnCancel)
            \/ spend_points_handler(i, BtnCancel)
            \/ calculate_discount_handler(i, BtnCancel)
            \/ handle_admin_buttons(i, BtnCancel)
            \/ admin_add_points_handler(i, BtnCancel)
            \/ admin_edit_user_handler(i, BtnCancel) ) =>
              UNCHANGED <<users, transactions>>
      ]_vars

\* C32: the registration conversation of an identity moves only from END to
\* PHONE, from PHONE to NAME, from NAME to GENDER and from GENDER to END (or
\* is cancelled to END); an account is created only in a step that takes the
\* registration of its identity from GENDER to END; and /start from an
\* identity that has an account leaves its conversations, the accounts and
\* the log as they were.
C32_UserSteps ==
    {<<END, PHONE>>, <<PHONE, NAME>>, <<NAME, GENDER>>, <<GENDER, END>>,
     <<PHONE, END>>, <<NAME, END>>}

C32_RegistersOnlyAfterGender ==
    [][ /\ \A i \in Identities :
              conv'[i].user # conv[i].user
                  => <<conv[i].user, conv'[i].user>> \in C32_UserSteps
        /\ Len(users') # Len(users)
              => /\ Len(users') = Len(users) + 1
                 /\ LET i == users'[Len(users')].telegram_id
                    IN  /\ i \in Identities
                        /\ conv[i].user = GENDER
                        /\ conv'[i].user = END
                        /\ {"phone", "name"} \subseteq DOMAIN user_data[i]
        /\ \A i \in Identities :
              (get_user_info(users, i) # None /\ start(i))
                  => /\ conv'[i] = conv[i]
                     /\ UNCHANGED <<users, transactions>> ]_vars

\* a customer has just been registered by get_gender
C32_Witness ==
    \E i \in Customers :
        /\ "msg" \in DOMAIN reply
        /\ reply.msg = "registered"
        /\ reply.to = i
        /\ conv[i].user = END
        /\ get_user_info(users, i) # None

-----------------------------------------------------------------------------
(* The webhook and the ledger.                                             *)

\* C34: a webhook request writes to the ledger in one step only, the write
\* of add_purchase_by_qr: it appends one 'purchase' row for the account whose
\* qr_code is the code of the payload and changes that account alone; the
\* request then notifies the identity of that account and returns ok.  A
\* request that returns without that write returns ignored, not_found or
\* error and has left users and transactions as they were.
C34_WebhookWritesOnlyWithOk ==
    [][ /\ \A data \in AllPayloads :
             WebhookRequest(data) =>
                 /\ UNCHANGED <<users, transactions>>
                 /\ \/ /\ wh'.pc = "return"
                       /\ wh'.resp.status \in {"ignored", "not_found", "error"}
                    \/ /\ wh'.pc = "update"
                       /\ wh'.qr_code = QrText(WebhookParse(data).qr_code)
                       /\ wh'.row.user_id \in 1..Len(users)
                       /\ users[wh'.row.user_id].qr_code = wh'.qr_code
        /\ wh' # wh /\ <<users, transactions>>' # <<users, transactions>> =>
              /\ wh.pc = "update"
              /\ wh'.pc = "select"
              /\ Len(transactions') = Len(transactions) + 1
              /\ SubSeq(transactions', 1, Len(transactions)) = transactions
              /\ transactions'[Len(transactions')].type = "purchase"
              /\ transactions'[Len(transactions')].user_id = wh.row.user_id
              /\ Len(users') = Len(users)
              /\ \A j \in 1..Len(users) :
                    IF users[j].qr_code = wh.qr_code
                    THEN j = wh.row.user_id
                    ELSE users'[j] = users[j]
        /\ wh.pc = "select" /\ wh' # wh =>
              /\ UNCHANGED <<users, transactions>>
              /\ wh'.pc = "return"
              /\ wh'.resp.status = "ok"
              /\ reply'.msg = "purchase_notification"
              /\ reply'.to = users[wh.row.user_id].telegram_id
        /\ wh.pc = "return" /\ wh' # wh =>
              /\ UNCHANGED <<users, transactions>>
              /\ wh' = WhIdle
        /\ wh' # wh /\ wh'.pc = "return" /\ wh'.resp.status = "ok" =>
              wh.pc = "select"
      ]_vars

\* ok is being returned for a purchase of the first of two accounts, whose
\* identity was notified; the second account still has its welcome bonus.
C34_Witness ==
    /\ wh.pc = "return"
    /\ wh.resp.status = "ok"
    /\ reply.msg = "purchase_notification"
    /\ reply.delivered
    /\ Len(users) = 2
    /\ reply.to = users[1].telegram_id
    /\ users[1].current_points # welcome_bonus
    /\ users[2].current_points = welcome_bonus

-----------------------------------------------------------------------------
(* The conversations of one identity.                                      *)

\* the conversations of identity i that are in progress
C35_InProgress(i) == {c \in Convs : conv[i][c] # END}

\* C35: for every identity at most one of the four conversations
\* (registration, purchase entry, redemption, administration) is in
\* progress.
C35_AtMostOneConversation ==
    \A i \in Identities : Cardinality(C35_InProgress(i)) <= 1

-----------------------------------------------------------------------------
(* The session of the redemption.                                          *)

\* the texts spend_points_handler takes as a number of points
C36_PointsTexts == {u \in DOMAIN Numerals : ValidPoints(u)}

\* C36: an identity enters CHECK_BALANCE only by a step of
\* spend_points_handler that stores in its own session the points of the text
\* and the user_id of its own account; while it is in CHECK_BALANCE no step
\* changes its session; calculate_discount_handler passes to spend_points the
\* points of that session and the user_id of the account of the identity; and
\* the write of spend_points changes that account alone, by these points
\* clamped to the amount.
C36_OwnAccountPointsOfThisFlow ==
    [][ /\ \A i \in RedeemIdentities :
             /\ (conv[i].points # CHECK_BALANCE /\ conv'[i].points = CHECK_BALANCE)
                   => \E u \in C36_PointsTexts :
                         /\ spend_points_handler(i, u)
                         /\ user_data'[i].points_to_spend = Numerals[u]
                         /\ user_data'[i].user_id = get_user_info(users, i).user_id
                         /\ \A j \in RedeemIdentities \ {i} :
                               user_data'[j] = user_data[j]
             /\ conv[i].points = CHECK_BALANCE => user_data'[i] = user_data[i]
             /\ \A u \in CustomerTexts :
                   (bot'.pc # bot.pc /\ calculate_discount_handler(i, u))
                       => /\ bot'.i = i
                          /\ bot'.user_id = get_user_info(users, i).user_id
                          /\ bot'.points_to_spend = user_data[i].points_to_spend
        /\ spend_points_update
              => /\ users[bot.user_id].telegram_id = bot.i
                 /\ conv[bot.i].points = CHECK_BALANCE
                 /\ bot.points_to_spend = user_data[bot.i].points_to_spend
                 /\ users'[bot.user_id].current_points =
                       users[bot.user_id].current_points
                         - ClampPoints(bot.points_to_spend, Some(bot.purchase_amount))
                 /\ \A j \in 1..Len(users) :
                       j # bot.user_id => users'[j] = users[j]
                 /\ transactions'[Len(transactions')].user_id = bot.user_id
      ]_vars

\* the account of 502 has been debited by the 30 points of its session while
\* 501 is in CHECK_BALANCE with 100 points in its own session
C36_Witness ==
    /\ bot.pc = "spend_select"
    /\ bot.i = 502
    /\ bot.points_to_spend = 30
    /\ users[bot.user_id].telegram_id = 502
    /\ users[bot.user_id].current_points < welcome_bonus
    /\ conv[501].points = CHECK_BALANCE
    /\ user_data[501].points_to_spend = 100
    /\ get_user_info(users, 501).current_points = welcome_bonus

-----------------------------------------------------------------------------
(* The purchase entry and the redemption need an account.                  *)

\* C37: every step leaves each identity whose purchase conversation is in
\* ADD_PURCHASE, or whose points conversation is in SPEND_POINTS or
\* CHECK_BALANCE, with an active account; and the purchase or the points
\* button pressed by an identity without an account leaves its
\* conversations, the accounts and the log as they were.
C37_FlowsNeedAccount ==
    [][ \A i \in Identities :
          /\ conv'[i].purchase = ADD_PURCHASE => get_user_info(users', i) # None
          /\ conv'[i].points \in {SPEND_POINTS, CHECK_BALANCE}
                => get_user_info(users', i) # None
          /\ get_user_info(users, i) = None
                => \A u \in {BtnAddPurchase, BtnSpend} :
                      \A c \in {"purchase", "points", "none"} :
                          handle_buttons(i, u, c)
                              => /\ conv'[i] = conv[i]
                                 /\ UNCHANGED <<users, transactions>>
      ]_vars

\* a customer who has an account is asked for the points to spend, and an
\* identity without an account has no conversation in progress
C37_Witness ==
    /\ \E i \in Customers :
          /\ conv[i].points = SPEND_POINTS
          /\ conv[i].purchase = END
          /\ get_user_info(users, i) # None
    /\ \E i \in Identities : get_user_info(users, i) = None /\ C21_Idle(i)

=============================================================================
